---- MODULE Spec2Model ----
(***************************************************************************)
(* pq-tester: a Go service that probes whether a TLS (TCP or QUIC)         *)
(* endpoint negotiates a post-quantum key agreement.                       *)
(*                                                                         *)
(* The model covers the landmark resolver (fetchLandmark, the hourly       *)
(* refresher, getLatestTAI and the RWMutex that guards latestTAI), the     *)
(* request handlers of the two server variants in src/main.go (remoteTest  *)
(* with testTCP / testQUIC, and the client-probe handler), and the page    *)
(* script that turns a JSON answer into a verdict.  Spec is the whole       *)
(* service; SpecFetch is the landmark resolver alone with every response   *)
(* it reads kept in the state; SpecObserver is one Conn observer and the   *)
(* handshake events it is given.                                           *)
(*                                                                         *)
(* Go strings that the code parses or formats are sequences of one-        *)
(* character strings; the Error text of a result is its sequence of words. *)
(***************************************************************************)
EXTENDS Integers, Sequences, FiniteSets, TLC

\* ------------------------------------------------------------------ bounds
\* longest landmark response body that is enumerated
MaxBody == 4

\* the longest run of handshake events given to one observer
MaxEvents == 3

\* the request workers that run concurrently (one goroutine per request)
Probes == {"p1", "p2"}

\* --------------------------------------------------------- Go text helpers
Digits == <<"0", "1", "2", "3", "4", "5", "6", "7", "8", "9">>

IsDigit(c) == \E i \in 1..10 : Digits[i] = c

DigitVal(c) == (CHOOSE i \in 1..10 : Digits[i] = c) - 1

\* unicode.IsSpace restricted to the characters that occur
IsSpace(c) == c \in {" ", "\n"}

RECURSIVE TrimLeft(_)
TrimLeft(s) ==
    IF s # <<>> /\ IsSpace(Head(s)) THEN TrimLeft(Tail(s)) ELSE s

RECURSIVE TrimRight(_)
TrimRight(s) ==
    IF s # <<>> /\ IsSpace(s[Len(s)])
    THEN TrimRight(SubSeq(s, 1, Len(s) - 1))
    ELSE s

\* strings.TrimSpace
TrimSpace(s) == TrimRight(TrimLeft(s))

\* strings.Cut(s, "\n"): the part before the first newline
RECURSIVE CutBefore(_)
CutBefore(s) ==
    IF s = <<>> \/ Head(s) = "\n" THEN <<>>
    ELSE <<Head(s)>> \o CutBefore(Tail(s))

\* strings.Fields: split around runs of white space, no empty fields
RECURSIVE FieldsAcc(_, _)
FieldsAcc(s, cur) ==
    IF s = <<>> THEN (IF cur = <<>> THEN <<>> ELSE <<cur>>)
    ELSE IF IsSpace(Head(s))
         THEN (IF cur = <<>> THEN <<>> ELSE <<cur>>) \o FieldsAcc(Tail(s), <<>>)
         ELSE FieldsAcc(Tail(s), Append(cur, Head(s)))

Fields(s) == FieldsAcc(s, <<>>)

RECURSIVE DigitsValue(_, _)
DigitsValue(s, acc) ==
    IF s = <<>> THEN acc ELSE DigitsValue(Tail(s), 10 * acc + DigitVal(Head(s)))

AllDigits(s) == s # <<>> /\ \A i \in 1..Len(s) : IsDigit(s[i])

\* strconv.Atoi: optional sign, then at least one digit, nothing else
Atoi(s) ==
    IF s # <<>> /\ Head(s) \in {"-", "+"}
    THEN IF AllDigits(Tail(s))
         THEN [err |-> FALSE,
               val |-> IF Head(s) = "-" THEN 0 - DigitsValue(Tail(s), 0)
                                        ELSE DigitsValue(Tail(s), 0)]
         ELSE [err |-> TRUE, val |-> 0]
    ELSE IF AllDigits(s)
         THEN [err |-> FALSE, val |-> DigitsValue(s, 0)]
         ELSE [err |-> TRUE, val |-> 0]

RECURSIVE NatToText(_)
NatToText(n) ==
    IF n < 10 THEN <<Digits[n + 1]>>
    ELSE NatToText(n \div 10) \o <<Digits[(n % 10) + 1]>>

\* the %d verb of fmt.Sprintf
IntToText(n) == IF n < 0 THEN <<"-">> \o NatToText(0 - n) ELSE NatToText(n)

\* ------------------------------------------------ trust anchor identifiers
\* A tls.TrustAnchorIdentifier is its sequence of uint32 segments; the zero
\* value of the type has none.
\* math.MaxUint32 in decimal (too wide for a model integer, so the range
\* check is made on the digits)
MaxUint32Text == <<"4", "2", "9", "4", "9", "6", "7", "2", "9", "5">>

RECURSIVE StripZeros(_)
StripZeros(s) ==
    IF Len(s) > 1 /\ Head(s) = "0" THEN StripZeros(Tail(s)) ELSE s

\* digit texts of equal length compare like the numbers
RECURSIVE TextLeq(_, _)
TextLeq(a, b) ==
    IF a = <<>> THEN TRUE
    ELSE IF DigitVal(Head(a)) # DigitVal(Head(b))
         THEN DigitVal(Head(a)) < DigitVal(Head(b))
         ELSE TextLeq(Tail(a), Tail(b))

FitsUint32(s) ==
    LET t == StripZeros(s)
    IN  \/ Len(t) < Len(MaxUint32Text)
        \/ Len(t) = Len(MaxUint32Text) /\ TextLeq(t, MaxUint32Text)

ZeroTAI == <<>>

\* const mtcBaseTAI = "44363.48.7"
mtcBaseTAI == <<"4", "4", "3", "6", "3", ".", "4", "8", ".", "7">>

\* split a dotted text at every "."
RECURSIVE SplitDots(_, _)
SplitDots(s, cur) ==
    IF s = <<>> THEN <<cur>>
    ELSE IF Head(s) = "." THEN <<cur>> \o SplitDots(Tail(s), <<>>)
         ELSE SplitDots(Tail(s), Append(cur, Head(s)))

\* TrustAnchorIdentifier.UnmarshalText: dotted decimal uint32 segments
UnmarshalText(text) ==
    LET comps == SplitDots(text, <<>>)
        ok == \A i \in 1..Len(comps) :
                 AllDigits(comps[i]) /\ FitsUint32(comps[i])
    IN  IF ok
        THEN [err |-> FALSE,
              tai |-> [i \in 1..Len(comps) |-> DigitsValue(comps[i], 0)]]
        ELSE [err |-> TRUE, tai |-> ZeroTAI]

\* TrustAnchorIdentifier.String: the segments in decimal, joined by "."
RECURSIVE TAIString(_)
TAIString(tai) ==
    IF tai = <<>> THEN <<>>
    ELSE IF Len(tai) = 1 THEN NatToText(tai[1])
    ELSE NatToText(Head(tai)) \o <<".">> \o TAIString(Tail(tai))

\* tai.FromSegments([]uint32{62253}), the server's dummy TAI
serverTAI == <<62253>>

\* --------------------------------------------------- landmark: pure parts
\* the characters a landmark body is made of
BodyChars == {"1", "x", "-", " ", "\n"}

RECURSIVE SeqsUpTo(_, _)
SeqsUpTo(S, n) ==
    IF n = 0 THEN {<<>>}
    ELSE LET shorter == SeqsUpTo(S, n - 1)
         IN  shorter \cup {Append(s, c) : s \in {t \in shorter : Len(t) = n - 1}, c \in S}

Bodies == SeqsUpTo(BodyChars, MaxBody)

\* what http.Get and io.ReadAll can hand to fetchLandmark
HttpResponses ==
    {[getErr |-> TRUE, status |-> 0, readErr |-> FALSE, body |-> <<>>]}
    \cup {[getErr |-> FALSE, status |-> st, readErr |-> FALSE, body |-> <<>>] :
            st \in {404, 500}}
    \cup {[getErr |-> FALSE, status |-> 200, readErr |-> TRUE, body |-> <<>>]}
    \cup {[getErr |-> FALSE, status |-> 200, readErr |-> FALSE, body |-> b] :
            b \in Bodies}

FetchOK(tai, last) == [err |-> "", tai |-> tai, last |-> last]

FetchErr(msg) == [err |-> msg, tai |-> ZeroTAI, last |-> 0]

\* fetchLandmark from the response to the value it is about to store
landmarkFromBody(body) ==
    LET firstLine == CutBefore(TrimSpace(body))
        parts == Fields(firstLine)
    IN  IF Len(parts) # 2 THEN FetchErr("invalid landmark header")
        ELSE LET lastLandmark == Atoi(parts[1])
             IN  IF lastLandmark.err THEN FetchErr("invalid last_landmark")
                 ELSE LET taiStr == mtcBaseTAI \o <<".">> \o IntToText(lastLandmark.val)
                          parsed == UnmarshalText(taiStr)
                      IN  IF parsed.err THEN FetchErr("parsing TAI")
                          ELSE FetchOK(parsed.tai, lastLandmark.val)

landmarkFromResponse(resp) ==
    IF resp.getErr THEN FetchErr("fetching landmark")
    ELSE IF resp.status # 200 THEN FetchErr("landmark endpoint returned")
    ELSE IF resp.readErr THEN FetchErr("reading landmark body")
    ELSE landmarkFromBody(resp.body)

\* every outcome of the unlocked part of fetchLandmark
FetchOutcomes == {landmarkFromResponse(r) : r \in HttpResponses}

\* no response on record: the endpoint may answer anything
NoHttpResp == [getErr |-> FALSE, status |-> 0, readErr |-> FALSE, body |-> <<>>]

\* what the unlocked part of fetchLandmark can come to, given what is known
\* of the endpoint's answer
fetchResults(resp) ==
    IF resp = NoHttpResp THEN FetchOutcomes ELSE {landmarkFromResponse(resp)}

\* ------------------------------------------------ key-exchange groups
\* tls.CurveID values, numbered as in the page's table
CurveP256 == 23
CurveP384 == 24
X25519 == 29
X25519MLKEM768 == 4588
X25519Kyber768Draft00 == 25497
X25519Kyber512Draft00 == 65072
X25519Kyber768Draft00Old == 65073
P256Kyber768Draft00 == 65074

DraftHybrids ==
    {X25519Kyber768Draft00, X25519Kyber512Draft00,
     X25519Kyber768Draft00Old, P256Kyber768Draft00}

ClassicalGroups == {CurveP256, CurveP384, 25, X25519}

\* the CurveID a completed session can report: 0 when no group was used,
\* 25 (P-521) and 256 (ffdhe2048) are not keys any table lists by name
KexDomain == {0, 256} \cup ClassicalGroups \cup DraftHybrids \cup {X25519MLKEM768}

isPQ(kex) == kex = X25519MLKEM768

\* the object literal `kexLut` of the page, entry by entry in source order
kexLutEntries ==
    << <<23, FALSE, "P-256">>,
       <<24, FALSE, "P-384">>,
       <<24, FALSE, "P-521">>,
       <<29, FALSE, "X25519">>,
       <<65072, TRUE, "X25519Kyber512Draft00">>,
       <<65073, TRUE, "X25519Kyber768Draft00Old">>,
       <<65074, TRUE, "P256Kyber768Draft00">>,
       <<25497, TRUE, "X25519Kyber768Draft00">>,
       <<4588, TRUE, "X25519MLKEM768">> >>

\* a later entry with the same key replaces the earlier one
kexLut ==
    [k \in {kexLutEntries[i][1] : i \in 1..Len(kexLutEntries)} |->
        LET last == CHOOSE i \in 1..Len(kexLutEntries) :
                       /\ kexLutEntries[i][1] = k
                       /\ \A j \in (i + 1)..Len(kexLutEntries) : kexLutEntries[j][1] # k
        IN  <<kexLutEntries[last][2], kexLutEntries[last][3]>>]

\* -------------------------------------------------------- result records
\* a Go slice: nil, or a (possibly empty) list
NilSlice == [isNil |-> TRUE, elems |-> <<>>]

MkSlice(elems) == [isNil |-> FALSE, elems |-> elems]

\* var oidMTCProof = asn1.ObjectIdentifier{1, 3, 6, 1, 4, 1, 44363, 47, 0}
oidMTCProof == <<1, 3, 6, 1, 4, 1, 44363, 47, 0>>

\* ecdsa-with-SHA256, the signature algorithm of an ordinary leaf
oidECDSAWithSHA256 == <<1, 2, 840, 10045, 4, 3, 2>>

\* a certificate as isMTC sees it: whether Raw decodes, and the outer
\* signature algorithm it then carries
Cert(wellFormed, alg) == [wellFormed |-> wellFormed, sigAlg |-> alg]

isMTC(cert) ==
    IF ~cert.wellFormed THEN FALSE ELSE cert.sigAlg = oidMTCProof

\* (mutant) `var tais []string` in place of `tais := []string{}`: an
\* empty list comes back nil
taisFromStateNilWhenEmpty(state) ==
    IF state.TrustAnchorIdentifiers.isNil \/ state.TrustAnchorIdentifiers.elems = <<>>
    THEN NilSlice
    ELSE MkSlice([i \in 1..Len(state.TrustAnchorIdentifiers.elems) |->
                    TAIString(state.TrustAnchorIdentifiers.elems[i])])

taisFromState(state) ==
    IF state.TrustAnchorIdentifiers.isNil THEN NilSlice
    ELSE MkSlice([i \in 1..Len(state.TrustAnchorIdentifiers.elems) |->
                    TAIString(state.TrustAnchorIdentifiers.elems[i])])

\* (mutant) an error result that keeps the group of the offered key share
errorResultPartial(stage, cause) ==
    [Kex |-> X25519, PQ |-> FALSE, TAIs |-> NilSlice, MTC |-> FALSE,
     Error |-> stage \o <<":", cause>>]

\* transportResult{Error: fmt.Sprintf("<stage>: %v", err)}
errorResult(stage, cause) ==
    [Kex |-> 0, PQ |-> FALSE, TAIs |-> NilSlice, MTC |-> FALSE,
     Error |-> stage \o <<":", cause>>]

\* the result testTCP and testQUIC build from a completed session
resultFromState(state) ==
    [Kex |-> state.CurveID,
     PQ |-> isPQ(state.CurveID),
     TAIs |-> taisFromState(state),
     MTC |-> IF Len(state.PeerCertificates) > 0
             THEN isMTC(state.PeerCertificates[1])
             ELSE FALSE,
     Error |-> <<>>]

\* ------------------------------------------------------- what peers do
PeerTAIs == {serverTAI, <<44363, 48, 7, 1>>}

\* the list a peer returns: absent, or some of the identifiers in some
\* order, none twice
PeerTAILists ==
    {NilSlice}
    \cup {MkSlice(l) : l \in {s \in SeqsUpTo(PeerTAIs, Cardinality(PeerTAIs)) :
                                \A i, j \in 1..Len(s) : s[i] = s[j] => i = j}}

CertChains ==
    {<<>>, <<Cert(TRUE, oidECDSAWithSHA256)>>, <<Cert(TRUE, oidMTCProof)>>,
     <<Cert(FALSE, <<>>)>>}

ConnState(kex, tais, certs) ==
    [HandshakeComplete |-> TRUE, CurveID |-> kex,
     TrustAnchorIdentifiers |-> tais, PeerCertificates |-> certs]

\* tls.ConnectionState of a completed handshake: every group, every TAI
\* list and every certificate chain occurs
Sessions ==
    {ConnState(k, NilSlice, <<>>) : k \in KexDomain}
    \cup {ConnState(X25519MLKEM768, t, <<>>) : t \in PeerTAILists}
    \cup {ConnState(X25519, NilSlice, c) : c \in CertChains}

\* ---------------------------------------------- client-probe observer
\* type Conn struct { kex tls.CurveID; hrr bool }
NewConn == [kex |-> 0, hrr |-> FALSE]

EvHRR == [type |-> "CFEventTLS13HRR", KEX |-> 0]

EvKEX(k) == [type |-> "CFEventTLS13NegotiatedKEX", KEX |-> k]

\* (mutant) the negotiated-group case written as a fresh record: it loses
\* the retry flag
eventHandlerKexResetsHRR(c, ev) ==
    CASE ev.type = "CFEventTLS13HRR" -> [c EXCEPT !.hrr = TRUE]
      [] ev.type = "CFEventTLS13NegotiatedKEX" -> [kex |-> ev.KEX, hrr |-> FALSE]
      [] OTHER -> c

eventHandler(c, ev) ==
    CASE ev.type = "CFEventTLS13HRR" -> [c EXCEPT !.hrr = TRUE]
      [] ev.type = "CFEventTLS13NegotiatedKEX" -> [c EXCEPT !.kex = ev.KEX]
      [] OTHER -> c

RECURSIVE deliver(_, _)
deliver(c, evs) ==
    IF evs = <<>> THEN c ELSE deliver(eventHandler(c, Head(evs)), Tail(evs))

\* an event of a type the switch of eventHandler has no case for
EvOther == [type |-> "CFEventECHClientStatus", KEX |-> 0]

\* no observer under examination
NoObs == [c |-> NewConn, todo |-> <<>>, seen |-> <<>>]

\* the inbound connection of a worker before it is accepted
NoInbound == [stage |-> "none", c |-> NewConn]

\* the events a completed handshake delivers when `curves` were offered
HandshakeEvents(curves) ==
    {<<>>}
    \cup {<<EvKEX(curves[i])>> : i \in 1..Len(curves)}
    \cup {<<EvHRR, EvKEX(curves[i])>> : i \in 1..Len(curves)}

\* the server's own TLSConfig.CurvePreferences
serverCurves == <<X25519Kyber768Draft00, X25519, CurveP256, CurveP384>>

\* the groups the callers of this model negotiate with the server: its
\* first preference and the first classical one
inboundCurves == SubSeq(serverCurves, 1, 2)

supportedCurves ==
    <<X25519, CurveP256, CurveP384, X25519Kyber768Draft00, X25519MLKEM768>>

preferredCurves ==
    <<X25519MLKEM768, X25519Kyber768Draft00, X25519, CurveP256, CurveP384>>

\* ------------------------------------------------------ requests, answers
\* a `remote` form value: <<>> when absent, else its host[:port] parts
Remotes == {<<>>, <<"example.com">>, <<"example.com", ":", "443">>}

\* net.SplitHostPort
SplitHostPort(remote) ==
    IF Len(remote) = 3 /\ remote[2] = ":"
    THEN [err |-> "", host |-> remote[1]]
    ELSE [err |-> "missing port in address", host |-> ""]

NoForm == [parseErr |-> FALSE, remote |-> <<>>, transport |-> "",
           insecure |-> FALSE, method |-> ""]

\* POST forms sent to the TAI-aware server (it reads no `method`)
RemoteTestForms ==
    [parseErr : BOOLEAN, remote : Remotes, transport : {"", "tcp", "quic", "sctp"},
     insecure : BOOLEAN, method : {""}]

\* POST forms sent to the client-probe server (it reads no `transport`)
ClientProbeForms ==
    [parseErr : BOOLEAN, remote : Remotes, transport : {""},
     insecure : BOOLEAN, method : {"", "supported", "preferred", "fastest"}]

NoJSON == [none |-> TRUE]

NoResp == [status |-> 0, ctype |-> "", json |-> NoJSON, text |-> ""]

\* errResp(w, status, msg)
errResp(status, msg) ==
    [status |-> status, ctype |-> "text/plain", json |-> NoJSON, text |-> msg]

\* w.Header().Set("Content-Type", "application/json"); Encode(&v)
jsonResp(v) ==
    [status |-> 200, ctype |-> "application/json", json |-> v, text |-> ""]

NoCfg == [set |-> FALSE, InsecureSkipVerify |-> FALSE,
          TrustAnchorIdentifiers |-> <<>>, CurvePreferences |-> <<>>,
          NextProtos |-> <<>>]

\* the zero tls.ConnectionState: no handshake was completed
NoState ==
    [HandshakeComplete |-> FALSE, CurveID |-> 0,
     TrustAnchorIdentifiers |-> NilSlice, PeerCertificates |-> <<>>]

NoVerdict == [className |-> "", kex |-> ""]

\* xhr.onload of the page: the verdict it displays for an answer
xhrOnload(resp) ==
    IF resp.status = 200
    THEN LET known == resp.json.Kex \in DOMAIN kexLut
             pq == IF known THEN kexLut[resp.json.Kex][1] ELSE FALSE
             kex == IF known THEN kexLut[resp.json.Kex][2] ELSE "undefined"
         IN  [className |-> IF pq THEN "pq" ELSE "nopq", kex |-> kex]
    ELSE [className |-> "inProgress", kex |-> "Internal failure"]

\* quic.Transport.Close: the socket is closed with the transport only when
\* the transport created it; a Transport built around a caller's Conn
\* leaves that Conn to the caller
TransportClose(open, createdConn) ==
    open \ ({"transport"} \cup (IF createdConn THEN {"udpConn"} ELSE {}))

IdleReq ==
    [pc |-> "idle", form |-> NoForm, peer |-> "none", cfg |-> NoCfg,
     open |-> {}, opened |-> {}, state |-> NoState, resp |-> NoResp,
     verdict |-> NoVerdict]

\* ------------------------------------------------------------------ state
VARIABLES
    variant,      \* which server runs: "tai" (remoteTest) or "client"
    phase,        \* main: "startup", "serving" or "fatal" (log.Fatalf)
    latestTAI,    \* var latestTAI tls.TrustAnchorIdentifier
    latestTAIMu,  \* var latestTAIMu sync.RWMutex: writer held, reader count
    fl,           \* the running fetchLandmark call: position and local tai
    lastLog,      \* the last line written with log.Printf / log.Fatalf
    httpResp,     \* what the landmark endpoint answers, when it is on record
    conn,         \* per worker: the inbound connection and its *Conn observer
    obs,          \* a *Conn with the events still to come and those it was given
    req           \* per request worker: position, form, resources, answer

vars == <<variant, phase, latestTAI, latestTAIMu, fl, lastLog, httpResp, conn, obs, req>>

LogNone == "none"
LogUpdated == "Updated landmark"
LogRefreshFailed == "Failed to refresh landmark"
LogInitialFailed == "Failed to fetch initial landmark"

\* ------------------------------------------------ landmark: the goroutines
\* main reaches `fetchLandmark()` at startup and issues http.Get
MainFetch ==
    /\ variant = "tai"
    /\ phase = "startup"
    /\ fl.pc = "idle"
    /\ fl' = [fl EXCEPT !.pc = "fetching"]
    /\ UNCHANGED <<conn, obs, httpResp, variant, phase, latestTAI, latestTAIMu, lastLog, req>>

\* (mutant) fetchLandmark with Lock() as its first statement: the lock is
\* taken before http.Get
RefresherWakeLocksFirst ==
    /\ variant = "tai"
    /\ phase = "serving"
    /\ fl.pc = "idle"
    /\ ~latestTAIMu.w
    /\ latestTAIMu.r = 0
    /\ latestTAIMu' = [latestTAIMu EXCEPT !.w = TRUE]
    /\ fl' = [fl EXCEPT !.pc = "fetching"]
    /\ UNCHANGED <<conn, obs, httpResp, variant, phase, latestTAI, lastLog, req>>

\* refreshLandmarkPeriodically: the hour's sleep ends, fetchLandmark starts
RefresherWake ==
    /\ variant = "tai"
    /\ phase = "serving"
    /\ fl.pc = "idle"
    /\ fl' = [fl EXCEPT !.pc = "fetching"]
    /\ UNCHANGED <<conn, obs, httpResp, variant, phase, latestTAI, latestTAIMu, lastLog, req>>

\* (mutant) the assignment made before the error is looked at: a failed
\* fetch stores the zero value
FetchFailedStoresZero ==
    /\ fl.pc = "fetching"
    /\ \E o \in fetchResults(httpResp) :
        /\ o.err # ""
        /\ fl' = [pc |-> "idle", tai |-> ZeroTAI]
        /\ latestTAI' = o.tai
        /\ IF phase = "startup"
           THEN phase' = "fatal" /\ lastLog' = LogInitialFailed
           ELSE phase' = phase /\ lastLog' = LogRefreshFailed
    /\ UNCHANGED <<conn, obs, httpResp, variant, latestTAIMu, req>>

\* (mutant) log.Printf in place of log.Fatalf: main goes on to serve after
\* a failed startup fetch
FetchFailedNotFatal ==
    /\ fl.pc = "fetching"
    /\ \E o \in fetchResults(httpResp) :
        /\ o.err # ""
        /\ fl' = [pc |-> "idle", tai |-> ZeroTAI]
        /\ IF phase = "startup"
           THEN phase' = "serving" /\ lastLog' = LogInitialFailed
           ELSE phase' = phase /\ lastLog' = LogRefreshFailed
    /\ UNCHANGED <<conn, obs, httpResp, variant, latestTAI, latestTAIMu, req>>

\* fetchLandmark returns an error: nothing is stored; at startup main dies
FetchFailed ==
    /\ fl.pc = "fetching"
    /\ \E o \in fetchResults(httpResp) :
        /\ o.err # ""
        /\ fl' = [pc |-> "idle", tai |-> ZeroTAI]
        /\ IF phase = "startup"
           THEN phase' = "fatal" /\ lastLog' = LogInitialFailed
           ELSE phase' = phase /\ lastLog' = LogRefreshFailed
    /\ UNCHANGED <<conn, obs, httpResp, variant, latestTAI, latestTAIMu, req>>

\* fetch, header check and TAI parse all succeeded: local `tai` is set
FetchParsed ==
    /\ fl.pc = "fetching"
    /\ \E o \in fetchResults(httpResp) :
        /\ o.err = ""
        /\ fl' = [pc |-> "parsed", tai |-> o.tai]
    /\ UNCHANGED <<conn, obs, httpResp, variant, phase, latestTAI, latestTAIMu, lastLog, req>>

\* latestTAIMu.Lock()
LockLatestTAI ==
    /\ fl.pc = "parsed"
    /\ ~latestTAIMu.w
    /\ latestTAIMu.r = 0
    /\ latestTAIMu' = [latestTAIMu EXCEPT !.w = TRUE]
    /\ fl' = [fl EXCEPT !.pc = "locked"]
    /\ UNCHANGED <<conn, obs, httpResp, variant, phase, latestTAI, lastLog, req>>

\* latestTAI = tai
StoreLatestTAI ==
    /\ fl.pc = "locked"
    /\ latestTAI' = fl.tai
    /\ fl' = [fl EXCEPT !.pc = "stored"]
    /\ UNCHANGED <<conn, obs, httpResp, variant, phase, latestTAIMu, lastLog, req>>

\* latestTAIMu.Unlock(), the log line, return nil; at startup main goes on
\* to start the refresher and to listen
UnlockLatestTAI ==
    /\ fl.pc = "stored"
    /\ latestTAIMu' = [latestTAIMu EXCEPT !.w = FALSE]
    /\ lastLog' = LogUpdated
    /\ fl' = [pc |-> "idle", tai |-> ZeroTAI]
    /\ phase' = IF phase = "startup" THEN "serving" ELSE phase
    /\ UNCHANGED <<conn, obs, httpResp, variant, latestTAI, req>>

\* ------------------------------------------------- TAI-aware server: POST
landmarkVars == <<variant, phase, latestTAI, latestTAIMu, fl, lastLog, httpResp>>

Answer(p, resp, open, state) ==
    req' = [req EXCEPT ![p] = [@ EXCEPT !.pc = "done", !.form = NoForm,
                                        !.peer = "none", !.cfg = NoCfg,
                                        !.open = open, !.state = state,
                                        !.resp = resp]]

\* handler and remoteTest up to the first network call of the probe
StartRemoteTest(p) ==
    /\ variant = "tai"
    /\ phase = "serving"
    /\ req[p].pc = "idle"
    /\ \E form \in RemoteTestForms :
        IF form.parseErr
        THEN Answer(p, errResp(400, "can't parse form"), {}, NoState)
        ELSE IF form.remote = <<>>
        THEN Answer(p, errResp(400, "missing remote parameter"), {}, NoState)
        ELSE IF SplitHostPort(form.remote).err # ""
        THEN Answer(p, errResp(400, "can't parse remote"), {}, NoState)
        ELSE IF form.transport = "quic"
        THEN req' = [req EXCEPT ![p] = [@ EXCEPT !.pc = "resolve", !.form = form]]
        ELSE IF form.transport = "tcp"
        THEN req' = [req EXCEPT ![p] = [@ EXCEPT !.pc = "dial", !.form = form]]
        ELSE Answer(p, errResp(400, "missing or invalid transport parameter"),
                    {}, NoState)
    /\ UNCHANGED <<landmarkVars, conn, obs>>

\* why net.Dial("tcp", remote) fails: the name does not resolve, the port
\* is closed, or the connect times out in the kernel
TCPDialFailures == {"no such host", "connection refused", "i/o timeout"}

\* testTCP: net.Dial returns an error
TCPDialFailed(p) ==
    /\ variant = "tai"
    /\ req[p].pc = "dial"
    /\ \E cause \in TCPDialFailures :
        Answer(p, jsonResp(errorResult(<<"dial">>, cause)), {}, NoState)
    /\ UNCHANGED <<landmarkVars, conn, obs>>

\* testTCP: net.Dial returns the connection; getLatestTAI is called next
TCPDialed(p) ==
    /\ variant = "tai"
    /\ req[p].pc = "dial"
    /\ req' = [req EXCEPT ![p] = [@ EXCEPT !.pc = "rlock",
                                           !.open = {"tcpConn"},
                                           !.opened = {"tcpConn"}]]
    /\ UNCHANGED <<landmarkVars, conn, obs>>

\* (mutant) getLatestTAI without the read lock's wait: the reader goes in
\* while the writer holds the lock
RLockIgnoresWriter(p) ==
    /\ req[p].pc = "rlock"
    /\ latestTAIMu' = [latestTAIMu EXCEPT !.r = @ + 1]
    /\ req' = [req EXCEPT ![p] = [@ EXCEPT !.pc = "rlocked"]]
    /\ UNCHANGED <<conn, obs, httpResp, variant, phase, latestTAI, fl, lastLog>>

\* getLatestTAI: latestTAIMu.RLock()
RLockLatestTAI(p) ==
    /\ req[p].pc = "rlock"
    /\ ~latestTAIMu.w
    /\ latestTAIMu' = [latestTAIMu EXCEPT !.r = @ + 1]
    /\ req' = [req EXCEPT ![p] = [@ EXCEPT !.pc = "rlocked"]]
    /\ UNCHANGED <<conn, obs, httpResp, variant, phase, latestTAI, fl, lastLog>>

\* the tls.Config testTCP and testQUIC build around the TAI they read;
\* `insecure` is a parameter of both and neither reads it
probeConfig(tai, insecure, protos) ==
    [set |-> TRUE, InsecureSkipVerify |-> TRUE,
     TrustAnchorIdentifiers |-> <<tai>>, CurvePreferences |-> <<>>,
     NextProtos |-> protos]

\* getLatestTAI returns latestTAI and runs the deferred RUnlock; the probe
\* builds its tls.Config and starts the handshake (tls.Client + Handshake
\* over TCP, transport.Dial over QUIC)
ReadLatestTAI(p) ==
    /\ req[p].pc = "rlocked"
    /\ latestTAIMu' = [latestTAIMu EXCEPT !.r = @ - 1]
    /\ IF req[p].form.transport = "tcp"
       THEN \E peer \in {"silent", "responds"} :
              req' = [req EXCEPT ![p] =
                        [@ EXCEPT !.pc = "handshake",
                                  !.peer = peer,
                                  !.cfg = probeConfig(latestTAI, req[p].form.insecure, <<>>),
                                  !.open = @ \cup {"tlsConn"},
                                  !.opened = @ \cup {"tlsConn"}]]
       ELSE req' = [req EXCEPT ![p] =
                        [@ EXCEPT !.pc = "quicdial",
                                  !.cfg = probeConfig(latestTAI, req[p].form.insecure, <<"h3">>)]]
    /\ UNCHANGED <<conn, obs, httpResp, variant, phase, latestTAI, fl, lastLog>>

\* why a TLS handshake with a peer that answers can fail
HandshakeFailures(cfg) ==
    {"first record does not look like a TLS handshake",
     "remote error: tls: handshake failure"}
    \cup (IF cfg.InsecureSkipVerify THEN {}
          ELSE {"x509: certificate signed by unknown authority"})

\* (mutant) a failed handshake answered by a second attempt: the probe
\* closes what it holds and dials again
TCPHandshakeFailedRedials(p) ==
    /\ variant = "tai"
    /\ req[p].pc = "handshake"
    /\ req[p].peer = "responds"
    /\ \E cause \in HandshakeFailures(req[p].cfg) :
        req' = [req EXCEPT ![p] = [@ EXCEPT !.pc = "dial", !.peer = "none",
                                            !.cfg = NoCfg, !.open = {}]]
    /\ UNCHANGED <<landmarkVars, conn, obs>>

\* testTCP: conn.Handshake returns an error; both deferred Close calls run.
\* Handshake has no deadline: it returns only when the peer sends something.
TCPHandshakeFailed(p) ==
    /\ variant = "tai"
    /\ req[p].pc = "handshake"
    /\ req[p].peer = "responds"
    /\ \E cause \in HandshakeFailures(req[p].cfg) :
        Answer(p, jsonResp(errorResult(<<"handshake">>, cause)), {}, NoState)
    /\ UNCHANGED <<landmarkVars, conn, obs>>

\* testTCP: the handshake completes, the result is read from the session
\* state, both deferred Close calls run
TCPHandshakeDone(p) ==
    /\ variant = "tai"
    /\ req[p].pc = "handshake"
    /\ req[p].peer = "responds"
    /\ \E state \in Sessions :
        Answer(p, jsonResp(resultFromState(state)), {}, state)
    /\ UNCHANGED <<landmarkVars, conn, obs>>

\* testQUIC: net.ResolveUDPAddr returns an error
QUICResolveFailed(p) ==
    /\ req[p].pc = "resolve"
    /\ Answer(p, jsonResp(errorResult(<<"resolve">>, "no such host")), {}, NoState)
    /\ UNCHANGED <<landmarkVars, conn, obs>>

\* testQUIC: the address resolves but net.ListenUDP returns an error
QUICListenFailed(p) ==
    /\ req[p].pc = "resolve"
    /\ Answer(p, jsonResp(errorResult(<<"listen", "udp">>, "address already in use")),
              {}, NoState)
    /\ UNCHANGED <<landmarkVars, conn, obs>>

\* testQUIC: the socket is bound and wrapped in a quic.Transport
QUICListened(p) ==
    /\ req[p].pc = "resolve"
    /\ req' = [req EXCEPT ![p] = [@ EXCEPT !.pc = "rlock",
                                           !.open = {"udpConn", "transport"},
                                           !.opened = {"udpConn", "transport"}]]
    /\ UNCHANGED <<landmarkVars, conn, obs>>

\* why transport.Dial fails: the remote is not reached, it never answers
\* (quic-go gives up after its handshake idle timeout), or the TLS
\* negotiation inside the QUIC handshake fails
QUICDialFailures(cfg) ==
    {"network is unreachable",
     "timeout: no recent network activity",
     "CRYPTO_ERROR: tls: handshake failure",
     "CRYPTO_ERROR: tls: no application protocol"}
    \cup (IF cfg.InsecureSkipVerify THEN {}
          ELSE {"CRYPTO_ERROR: x509: certificate signed by unknown authority"})

\* testQUIC: transport.Dial returns an error; the deferred transport.Close
\* runs (the transport did not create the socket)
QUICDialFailed(p) ==
    /\ req[p].pc = "quicdial"
    /\ \E cause \in QUICDialFailures(req[p].cfg) :
        Answer(p, jsonResp(errorResult(<<"dial">>, cause)),
               TransportClose(req[p].open, FALSE), NoState)
    /\ UNCHANGED <<landmarkVars, conn, obs>>

\* testQUIC: transport.Dial returns the connection after the handshake;
\* the result is read, then conn.CloseWithError and transport.Close run
QUICDialDone(p) ==
    /\ req[p].pc = "quicdial"
    /\ \E state \in Sessions :
        req' = [req EXCEPT ![p] =
                  [@ EXCEPT !.pc = "done", !.form = NoForm, !.cfg = NoCfg,
                            !.opened = @ \cup {"quicConn"},
                            !.open = TransportClose(@, FALSE),
                            !.state = state,
                            !.resp = jsonResp(resultFromState(state))]]
    /\ UNCHANGED <<landmarkVars, conn, obs>>

\* ------------------------------------- client-probe server: connections, GET
\* the server accepts a connection for worker p: ConnContext makes a fresh
\* &Conn{} and puts conn.eventHandler and conn in the connection's context.
\* The handshake of a listener that terminates TLS with srv.TLSConfig hands
\* its events to that handler before the first request; the listener main
\* starts (srv.ListenAndServe) serves plain HTTP and hands it none.
InboundAccepted(p) ==
    /\ variant = "client"
    /\ conn[p].stage = "none"
    /\ \E evs \in HandshakeEvents(inboundCurves) :
        conn' = [conn EXCEPT ![p] = [stage |-> "open", c |-> deliver(NewConn, evs)]]
    /\ UNCHANGED <<landmarkVars, obs, req>>

\* the caller closes an idle connection; the next one gets its own Conn
InboundClosed(p) ==
    /\ variant = "client"
    /\ conn[p].stage = "open"
    /\ req[p].pc = "idle"
    /\ conn' = [conn EXCEPT ![p] = NoInbound]
    /\ UNCHANGED <<landmarkVars, obs, req>>

\* handler, any method but POST: the reply is read from the Conn found
\* under ConnContextKey in the request's context
PlainRequest(p) ==
    /\ variant = "client"
    /\ conn[p].stage = "open"
    /\ req[p].pc = "idle"
    /\ Answer(p, jsonResp([Kex |-> conn[p].c.kex, HRR |-> conn[p].c.hrr]),
              {}, NoState)
    /\ UNCHANGED <<landmarkVars, conn, obs>>

\* ------------------------------------------------ client-probe server: POST
\* (mutant) the two branches of the method test exchanged
curvesForExchanged(method) ==
    IF method = "supported" THEN preferredCurves
    ELSE IF method = "preferred" \/ method = "" THEN supportedCurves
    ELSE <<>>

\* the curve list the handler picks for a `method` value (<<>>: rejected)
curvesFor(method) ==
    IF method = "supported" THEN supportedCurves
    ELSE IF method = "preferred" \/ method = "" THEN preferredCurves
    ELSE <<>>

clientConfig(curves, insecure) ==
    [set |-> TRUE, InsecureSkipVerify |-> insecure,
     TrustAnchorIdentifiers |-> <<>>, CurvePreferences |-> curves,
     NextProtos |-> <<>>]

\* handler up to DialContext
StartClientProbe(p) ==
    /\ variant = "client"
    /\ conn[p].stage = "open"
    /\ req[p].pc = "idle"
    /\ \E form \in ClientProbeForms :
        IF form.parseErr
        THEN Answer(p, errResp(400, "can't parse form"), {}, NoState)
        ELSE IF SplitHostPort(form.remote).err # ""
        THEN Answer(p, errResp(400, "can't parse remote"), {}, NoState)
        ELSE req' = [req EXCEPT ![p] = [@ EXCEPT !.pc = "dial", !.form = form]]
    /\ UNCHANGED <<landmarkVars, conn, obs>>

\* DialContext returns an error (the last cause: the request's context was
\* cancelled because the caller went away)
ClientDialFailed(p) ==
    /\ variant = "client"
    /\ req[p].pc = "dial"
    /\ \E cause \in TCPDialFailures \cup {"operation was canceled"} :
        Answer(p, errResp(400, "can't dial"), {}, NoState)
    /\ UNCHANGED <<landmarkVars, conn, obs>>

\* DialContext returns the connection; the method is looked at only now
ClientDialed(p) ==
    /\ variant = "client"
    /\ req[p].pc = "dial"
    /\ LET curves == curvesFor(req[p].form.method)
       IN  IF curves = <<>>
           THEN req' = [req EXCEPT ![p] =
                          [@ EXCEPT !.pc = "done", !.form = NoForm,
                                    !.opened = {"tcpConn"}, !.open = {},
                                    !.resp = errResp(400, "unknown method")]]
           ELSE \E peer \in {"silent", "responds"} :
                  req' = [req EXCEPT ![p] =
                            [@ EXCEPT !.pc = "handshake", !.peer = peer,
                                      !.cfg = clientConfig(curves, req[p].form.insecure),
                                      !.open = {"tcpConn", "tlsConn"},
                                      !.opened = {"tcpConn", "tlsConn"}]]
    /\ UNCHANGED <<landmarkVars, conn, obs>>

\* HandshakeContext returns an error because the peer's answer is not an
\* acceptable handshake; both deferred Close calls run
ClientHandshakeFailed(p) ==
    /\ variant = "client"
    /\ req[p].pc = "handshake"
    /\ req[p].peer = "responds"
    /\ \E cause \in HandshakeFailures(req[p].cfg) :
        Answer(p, errResp(400, "handshake"), {}, NoState)
    /\ UNCHANGED <<landmarkVars, conn, obs>>

\* the request's context is cancelled while the handshake waits (the
\* caller went away): HandshakeContext returns the context's error
ClientCtxCancelled(p) ==
    /\ variant = "client"
    /\ req[p].pc = "handshake"
    /\ Answer(p, errResp(400, "handshake"), {}, NoState)
    /\ UNCHANGED <<landmarkVars, conn, obs>>

\* (mutant) the probe run with the request's own context: the events of
\* the outbound handshake go to the handler of the inbound connection
ClientHandshakeDoneOnInboundConn(p) ==
    /\ variant = "client"
    /\ req[p].pc = "handshake"
    /\ req[p].peer = "responds"
    /\ \E evs \in HandshakeEvents(req[p].cfg.CurvePreferences) :
        LET c == deliver(conn[p].c, evs)
        IN  /\ conn' = [conn EXCEPT ![p].c = c]
            /\ Answer(p, jsonResp([Kex |-> c.kex, HRR |-> c.hrr,
                                   Remote |-> req[p].form.remote]),
                      {}, NoState)
    /\ UNCHANGED <<landmarkVars, obs>>

\* the handshake completes; the events it delivered to newConn.eventHandler
\* make the answer; both deferred Close calls run
ClientHandshakeDone(p) ==
    /\ variant = "client"
    /\ req[p].pc = "handshake"
    /\ req[p].peer = "responds"
    /\ \E evs \in HandshakeEvents(req[p].cfg.CurvePreferences) :
        LET newConn == deliver(NewConn, evs)
        IN  Answer(p, jsonResp([Kex |-> newConn.kex, HRR |-> newConn.hrr,
                                Remote |-> req[p].form.remote]),
                   {}, NoState)
    /\ UNCHANGED <<landmarkVars, conn, obs>>

\* an answer to the page's POST: an error text, or JSON that is not the
\* two-field reply of a plain request
isProbeAnswer(resp) ==
    resp.ctype = "text/plain" \/ DOMAIN resp.json # {"Kex", "HRR"}

\* the request is over on the server; the page receives the answer and
\* shows its verdict
XhrOnload(p) ==
    /\ req[p].pc = "done"
    /\ isProbeAnswer(req[p].resp)
    /\ req' = [req EXCEPT ![p] = [IdleReq EXCEPT !.pc = "shown",
                                                 !.verdict = xhrOnload(req[p].resp)]]
    /\ UNCHANGED <<landmarkVars, conn, obs>>

\* the request is over (with or without a page that shows the answer);
\* the worker takes the next one
Reset(p) ==
    /\ req[p].pc \in {"done", "shown"}
    /\ req' = [req EXCEPT ![p] = IdleReq]
    /\ UNCHANGED <<landmarkVars, conn, obs>>

\* ---------------------------------------------------------- specification
Init ==
    /\ variant \in {"tai", "client"}
    /\ phase = IF variant = "tai" THEN "startup" ELSE "serving"
    /\ latestTAI = ZeroTAI
    /\ latestTAIMu = [w |-> FALSE, r |-> 0]
    /\ fl = [pc |-> "idle", tai |-> ZeroTAI]
    /\ lastLog = LogNone
    /\ httpResp = NoHttpResp
    /\ conn = [p \in Probes |-> NoInbound]
    /\ obs = NoObs
    /\ req = [p \in Probes |-> IdleReq]

Landmark ==
    \/ MainFetch
    \/ RefresherWake
    \/ FetchFailed
    \/ FetchParsed
    \/ LockLatestTAI
    \/ StoreLatestTAI
    \/ UnlockLatestTAI

RemoteTest(p) ==
    \/ StartRemoteTest(p)
    \/ TCPDialFailed(p)
    \/ TCPDialed(p)
    \/ RLockLatestTAI(p)
    \/ ReadLatestTAI(p)
    \/ TCPHandshakeFailed(p)
    \/ TCPHandshakeDone(p)
    \/ QUICResolveFailed(p)
    \/ QUICListenFailed(p)
    \/ QUICListened(p)
    \/ QUICDialFailed(p)
    \/ QUICDialDone(p)

ClientProbe(p) ==
    \/ InboundAccepted(p)
    \/ InboundClosed(p)
    \/ PlainRequest(p)
    \/ StartClientProbe(p)
    \/ ClientDialFailed(p)
    \/ ClientDialed(p)
    \/ ClientHandshakeFailed(p)
    \/ ClientCtxCancelled(p)
    \/ ClientHandshakeDone(p)

Next ==
    \/ Landmark
    \/ \E p \in Probes : RemoteTest(p)
    \/ \E p \in Probes : ClientProbe(p)
    \/ \E p \in Probes : XhrOnload(p)
    \/ \E p \in Probes : Reset(p)

Spec == Init /\ [][Next]_vars

\* the steps of a request that the Go runtime takes on its own once they
\* are possible: a call returns, a lock is granted
ProbeStep(p) ==
    \/ TCPDialFailed(p) \/ TCPDialed(p)
    \/ RLockLatestTAI(p) \/ ReadLatestTAI(p)
    \/ TCPHandshakeFailed(p) \/ TCPHandshakeDone(p)
    \/ QUICResolveFailed(p) \/ QUICListenFailed(p) \/ QUICListened(p)
    \/ QUICDialFailed(p) \/ QUICDialDone(p)
    \/ ClientDialFailed(p) \/ ClientDialed(p)
    \/ ClientHandshakeFailed(p) \/ ClientHandshakeDone(p)

\* Spec with the scheduling the runtime gives: every call that can return
\* does, RLock is granted once the writer is out, and the writer, once it
\* holds the lock, stores and unlocks.  Nothing is assumed of the network
\* beyond that: a request arrives or not, a caller goes away or not, the
\* landmark endpoint answers or not.
FairSpec ==
    /\ Spec
    /\ \A p \in Probes : SF_vars(ProbeStep(p))
    /\ WF_vars(StoreLatestTAI \/ UnlockLatestTAI)

\* --------------------------------- fetchLandmark on the answers it is given
\* the landmark endpoint publishes something else between two refreshes
EndpointChanges ==
    /\ variant = "tai"
    /\ phase = "serving"
    /\ fl.pc = "idle"
    /\ httpResp # NoHttpResp
    /\ \E r \in HttpResponses \ {httpResp} : httpResp' = r
    /\ UNCHANGED <<conn, obs, variant, phase, latestTAI, latestTAIMu, fl, lastLog, req>>

\* the TAI-aware server starts against an endpoint whose answer is on record
InitFetch ==
    /\ variant = "tai"
    /\ phase = "startup"
    /\ latestTAI = ZeroTAI
    /\ latestTAIMu = [w |-> FALSE, r |-> 0]
    /\ fl = [pc |-> "idle", tai |-> ZeroTAI]
    /\ lastLog = LogNone
    /\ httpResp \in HttpResponses
    /\ conn = [p \in Probes |-> NoInbound]
    /\ obs = NoObs
    /\ req = [p \in Probes |-> IdleReq]

NextFetch ==
    \/ Landmark
    \/ EndpointChanges

\* main's first fetch and the refresher, with every response fetchLandmark
\* reads held in the state
SpecFetch == InitFetch /\ [][NextFetch]_vars

\* ----------------------------------------- a *Conn and the events it is given
\* the events the TLS stack hands to a registered handler
ObservedEvents == {EvHRR, EvKEX(X25519), EvKEX(X25519Kyber768Draft00), EvOther}

\* the TLS stack calls c.eventHandler with the next event of the handshake
DeliverEvent ==
    /\ obs.todo # <<>>
    /\ obs' = [c |-> eventHandler(obs.c, Head(obs.todo)),
               todo |-> Tail(obs.todo),
               seen |-> Append(obs.seen, Head(obs.todo))]
    /\ UNCHANGED <<variant, phase, latestTAI, latestTAIMu, fl, lastLog,
                   httpResp, conn, req>>

\* a fresh &Conn{} and the events one handshake is going to give it
InitObserver ==
    /\ variant = "client"
    /\ phase = "serving"
    /\ latestTAI = ZeroTAI
    /\ latestTAIMu = [w |-> FALSE, r |-> 0]
    /\ fl = [pc |-> "idle", tai |-> ZeroTAI]
    /\ lastLog = LogNone
    /\ httpResp = NoHttpResp
    /\ conn = [p \in Probes |-> NoInbound]
    /\ obs \in {[c |-> NewConn, todo |-> evs, seen |-> <<>>] :
                  evs \in SeqsUpTo(ObservedEvents, MaxEvents)}
    /\ req = [p \in Probes |-> IdleReq]

NextObserver == DeliverEvent

SpecObserver == InitObserver /\ [][NextObserver]_vars

\* ------------------------------------------------------------------ claims
InFlight(p) == req[p].pc \notin {"idle", "done", "shown"}

Returned(p) == req[p].pc = "done"

\* a returned transport probe (testTCP, testQUIC) and its result
ProbeReturned(p) ==
    /\ variant = "tai"
    /\ Returned(p)
    /\ req[p].resp.ctype = "application/json"

ResultOf(p) == req[p].resp.json

\* C1: every result a transport probe returns is an error result (Error
\* set; Kex 0, PQ false, TAIs nil, MTC false) or a success result (Error
\* empty; the handshake completed and Kex, PQ, TAIs, MTC are what the
\* completed session's state gives), never a mix.
C1_ErrorOrSuccess ==
    \A p \in Probes :
        ProbeReturned(p) =>
            LET r == ResultOf(p)
                st == req[p].state
            IN  /\ r.Error # <<>> =>
                    /\ r.Kex = 0
                    /\ ~r.PQ
                    /\ r.TAIs = NilSlice
                    /\ ~r.MTC
                    /\ ~st.HandshakeComplete
                /\ r.Error = <<>> =>
                    /\ st.HandshakeComplete
                    /\ r.Kex = st.CurveID
                    /\ r.PQ = (st.CurveID = X25519MLKEM768)
                    /\ r.TAIs.isNil = st.TrustAnchorIdentifiers.isNil
                    /\ Len(r.TAIs.elems) = Len(st.TrustAnchorIdentifiers.elems)
                    /\ r.MTC = (/\ st.PeerCertificates # <<>>
                                /\ st.PeerCertificates[1].wellFormed
                                /\ st.PeerCertificates[1].sigAlg = oidMTCProof)

\* C1 witness: an error result and a success result with a negotiated
\* group, a returned TAI and an MTC leaf of another probe, side by side
C1_Witness ==
    \E p, q \in Probes :
        /\ ProbeReturned(p) /\ ResultOf(p).Error # <<>>
        /\ ProbeReturned(q) /\ ResultOf(q).Error = <<>>
        /\ ResultOf(q).Kex # 0
        /\ req[q].state.PeerCertificates # <<>>
        /\ ResultOf(q).MTC

\* the stage tag: the first word of the Error text
StageTag(r) == r.Error[1]

\* the cause: the text of the error after the tag
Cause(r) == r.Error[Len(r.Error)]

StageTags == {"resolve", "listen", "dial", "handshake"}

\* causes that say the remote was not reached
UnreachedCauses ==
    {"no such host", "connection refused", "i/o timeout",
     "address already in use", "network is unreachable"}

\* causes that say the remote was reached and the TLS negotiation failed
NegotiationCauses ==
    {"first record does not look like a TLS handshake",
     "remote error: tls: handshake failure",
     "x509: certificate signed by unknown authority",
     "CRYPTO_ERROR: tls: handshake failure",
     "CRYPTO_ERROR: tls: no application protocol",
     "CRYPTO_ERROR: x509: certificate signed by unknown authority"}

\* C2: on both transports the stage tag of an error result is one of
\* resolve, listen, dial, handshake; a failure to reach the remote is tagged
\* resolve, listen or dial, and a failed TLS negotiation with a remote that
\* was reached is tagged handshake.
C2_StageTagNamesFailedStep ==
    \A p \in Probes :
        (ProbeReturned(p) /\ ResultOf(p).Error # <<>>) =>
            LET r == ResultOf(p)
            IN  /\ StageTag(r) \in StageTags
                /\ Cause(r) \in UnreachedCauses =>
                       StageTag(r) \in {"resolve", "listen", "dial"}
                /\ Cause(r) \in NegotiationCauses => StageTag(r) = "handshake"

\* C3: every probe call eventually returns a result, whatever the remote
\* does (also when it accepts the connection and then never sends anything).
C3_EveryProbeReturns ==
    \A p \in Probes : InFlight(p) ~> Returned(p)

\* C4: a failed landmark refresh leaves latestTAI exactly as it was, and
\* once latestTAI is not the zero value it never is the zero value again.
C4_FailedRefreshKeepsLatestTAI ==
    [][/\ (fl.pc = "fetching" /\ fl'.pc = "idle") => latestTAI' = latestTAI
       /\ latestTAI # ZeroTAI => latestTAI' # ZeroTAI]_vars

\* C4 witness: a refresh has just failed while a fetched value is in
\* place, and a refresh can fail in each of the ways fetchLandmark has
C4_Witness ==
    /\ lastLog = LogRefreshFailed
    /\ latestTAI # ZeroTAI
    /\ fl.pc = "idle"
    /\ {"fetching landmark", "landmark endpoint returned", "reading landmark body",
        "invalid landmark header", "invalid last_landmark", "parsing TAI"}
         \subseteq {o.err : o \in FetchOutcomes}

\* the values a fully successful fetch stores
FetchedTAIs == {o.tai : o \in {x \in FetchOutcomes : x.err = ""}}

\* C5: no request is served before one landmark fetch has fully succeeded
\* (a failed startup fetch stops the process), so every TAI a probe reads
\* with getLatestTAI and offers in its handshake is a value a successful
\* fetch wrote, never the zero value.
C5_NoProbeBeforeFirstFetch ==
    /\ phase # "serving" => \A p \in Probes : req[p] = IdleReq
    /\ variant = "tai" =>
        \A p \in Probes :
            /\ req[p].pc # "idle" => latestTAI # ZeroTAI
            /\ req[p].cfg.set =>
                /\ req[p].cfg.TrustAnchorIdentifiers # <<>>
                /\ \A i \in 1..Len(req[p].cfg.TrustAnchorIdentifiers) :
                       /\ req[p].cfg.TrustAnchorIdentifiers[i] # ZeroTAI
                       /\ req[p].cfg.TrustAnchorIdentifiers[i] \in FetchedTAIs

\* C5 witness: a probe is in its handshake, offering the TAI it read,
\* while another refresh has failed
C5_Witness ==
    /\ variant = "tai"
    /\ lastLog = LogRefreshFailed
    /\ \E p \in Probes :
        /\ req[p].pc \in {"handshake", "quicdial"}
        /\ req[p].cfg.set

\* C6: when a probe returns, on every path, every transport resource it
\* opened has been closed.
C6_AllResourcesClosed ==
    \A p \in Probes : Returned(p) => req[p].open = {}

\* C7: the TLS configuration of a probe skips certificate-chain validation
\* exactly when the request carries the insecure flag, on every variant.
C7_InsecureIffFlag ==
    \A p \in Probes :
        req[p].cfg.set => (req[p].cfg.InsecureSkipVerify = req[p].form.insecure)

\* the plain-text answers that report an input error
InputErrorTexts ==
    {"can't parse form", "missing remote parameter", "can't parse remote",
     "missing or invalid transport parameter", "unknown method"}

\* C8: in every variant of the handler a 4xx plain-text answer is given
\* only for an input error; a dial or handshake failure is reported in the
\* JSON result's Error field with its stage tag.
C8_FailuresInJSON ==
    \A p \in Probes :
        Returned(p) =>
            /\ req[p].resp.status # 200 =>
                /\ req[p].resp.ctype = "text/plain"
                /\ req[p].resp.text \in InputErrorTexts
            /\ req[p].resp.text \notin {"can't dial", "handshake"}

\* C9: the TAIs field of a successful result is nil exactly when the
\* session's identifier list is nil; otherwise it is a list with one string
\* per identifier, in the same order (an empty list for an empty list).
C9_TAIsNilIffStateNil ==
    \A p \in Probes :
        (ProbeReturned(p) /\ ResultOf(p).Error = <<>>) =>
            LET out == ResultOf(p).TAIs
                ids == req[p].state.TrustAnchorIdentifiers
            IN  /\ out.isNil = ids.isNil
                /\ Len(out.elems) = Len(ids.elems)
                /\ \A i \in 1..Len(ids.elems) :
                       /\ ~UnmarshalText(out.elems[i]).err
                       /\ UnmarshalText(out.elems[i]).tai = ids.elems[i]

\* C9 witness: a peer that negotiated TAIs and returned none
C9_Witness ==
    \E p \in Probes :
        /\ ProbeReturned(p)
        /\ ResultOf(p).Error = <<>>
        /\ req[p].state.TrustAnchorIdentifiers = MkSlice(<<>>)
        /\ ResultOf(p).TAIs = MkSlice(<<>>)

\* C10: exactly one group classifies as post-quantum, X25519MLKEM768: the
\* PQ field of a result is true for it alone, and the page shows the
\* post-quantum verdict for it alone.
C10_OnlyMLKEMIsPQ ==
    \A p \in Probes :
        /\ (ProbeReturned(p) /\ ResultOf(p).Error = <<>>) =>
               (ResultOf(p).PQ = (ResultOf(p).Kex = X25519MLKEM768))
        /\ (req[p].pc = "shown" /\ req[p].verdict.className = "pq") =>
               req[p].verdict.kex = "X25519MLKEM768"

\* the order of a request's steps: a later step has a greater rank
StepRank(pc) ==
    CASE pc = "idle" -> 0
      [] pc \in {"dial", "resolve"} -> 1
      [] pc = "rlock" -> 2
      [] pc = "rlocked" -> 3
      [] pc \in {"handshake", "quicdial"} -> 4
      [] pc = "done" -> 5
      [] pc = "shown" -> 6

\* C11: a probe request makes at most one connection attempt: a request in
\* flight only moves forward through its steps (it never comes back to a
\* dial or a handshake it has left), it opens each kind of resource at most
\* once, and a step that fails is the request's last: the failure is the
\* answer and nothing stays open for a second try.
C11_OneAttemptPerRequest ==
    [][\A p \in Probes :
          /\ InFlight(p) /\ req'[p] # req[p]
                => StepRank(req'[p].pc) > StepRank(req[p].pc)
          /\ InFlight(p) => req[p].opened \subseteq req'[p].opened
          /\ InFlight(p) /\ req'[p].pc = "done" /\ req'[p].resp.status # 200
                => ~req'[p].state.HandshakeComplete
          /\ InFlight(p) /\ req'[p].pc = "done" /\ req'[p].resp.status = 200
                /\ "Error" \in DOMAIN req'[p].resp.json
                /\ req'[p].resp.json.Error # <<>>
                => ~req'[p].state.HandshakeComplete]_vars

\* a probe has returned the failure of a handshake it started on the one
\* connection it dialed
C11_Witness ==
    \E p \in Probes :
        /\ Returned(p)
        /\ req[p].opened = {"tcpConn", "tlsConn"}
        /\ \/ req[p].resp.text = "handshake"
           \/ /\ req[p].resp.ctype = "application/json"
              /\ "Error" \in DOMAIN req[p].resp.json
              /\ req[p].resp.json.Error # <<>>
              /\ StageTag(req[p].resp.json) = "handshake"

\* text that reads as an integer: digits, after an optional sign
IntegerText(t) ==
    LET d == IF t # <<>> /\ t[1] \in {"+", "-"} THEN Tail(t) ELSE t
    IN  d # <<>> /\ \A i \in 1..Len(d) : IsDigit(d[i])

\* C12: a refresh replaces the latest TAI only when the first line of the
\* response is exactly two whitespace-separated fields that are both
\* integers, and the value it stores is the base identifier 44363.48.7 with
\* the first field as its last segment; what follows the first line plays no
\* part.  (A response with one field, more than two, or a field that is not
\* a number must therefore never reach the store.)
C12_StoresOnlyTwoIntegerFields ==
    fl.pc = "stored" =>
        LET parts == Fields(CutBefore(TrimSpace(httpResp.body)))
        IN  /\ ~httpResp.getErr /\ httpResp.status = 200 /\ ~httpResp.readErr
            /\ Len(parts) = 2
            /\ IntegerText(parts[1])
            /\ IntegerText(parts[2])
            /\ latestTAI = <<44363, 48, 7, Atoi(parts[1]).val>>

\* the readers inside getLatestTAI, between RLock and RUnlock
Readers == {p \in Probes : req[p].pc = "rlocked"}

\* the one fetchLandmark call there is holds the exclusive lock
Writing == fl.pc \in {"locked", "stored"}

\* C13: every value getLatestTAI returns is one whole value that a fully
\* successful fetch stored.  The exclusive lock is held exactly while
\* fetchLandmark is between Lock and Unlock, and then no reader is inside
\* getLatestTAI; latestTAI changes only in the store step of fetchLandmark,
\* under that lock, to the value the fetch validated; a reader takes its
\* value only while it holds the read lock and no writer is in; and there is
\* one fetchLandmark call at a time (main's, then the refresher's), so never
\* two writers.
C13_ReadersSeeWholeStoredValues ==
    /\ [](/\ latestTAIMu.w <=> Writing
          /\ latestTAIMu.r = Cardinality(Readers)
          /\ latestTAIMu.w => Readers = {}
          /\ fl.pc # "idle" /\ phase = "startup" => \A p \in Probes : req[p] = IdleReq
          /\ latestTAI \in FetchedTAIs \cup {ZeroTAI}
          /\ variant = "tai" =>
                \A p \in Probes :
                    req[p].cfg.set =>
                        \E t \in FetchedTAIs : req[p].cfg.TrustAnchorIdentifiers = <<t>>)
    /\ [][/\ latestTAI' # latestTAI =>
                /\ fl.pc = "locked" /\ fl'.pc = "stored"
                /\ latestTAIMu.w /\ latestTAIMu.r = 0
                /\ fl.tai \in FetchedTAIs
                /\ latestTAI' = fl.tai
          /\ \A p \in Probes :
                variant = "tai" /\ ~req[p].cfg.set /\ req'[p].cfg.set =>
                    /\ p \in Readers
                    /\ ~latestTAIMu.w
                    /\ req'[p].cfg.TrustAnchorIdentifiers = <<latestTAI>>]_vars

\* a reader waits for the read lock while the refresher, holding the
\* exclusive lock, has just stored a value that differs from the one another
\* probe read earlier and is offering
C13_Witness ==
    /\ fl.pc = "stored"
    /\ latestTAIMu.w
    /\ \E p, q \in Probes :
        /\ req[p].pc = "rlock"
        /\ req[q].cfg.set
        /\ req[q].cfg.TrustAnchorIdentifiers # <<latestTAI>>

\* C14: the refresh never holds the lock while it fetches or parses: the
\* exclusive lock is held only from Lock to Unlock around the one
\* assignment.  While a fetch is under way (however long it stalls) the lock
\* is free, so a probe that calls getLatestTAI is granted the read lock and
\* a probe that holds it returns: RLock and the read are both possible.
C14_NoLockWhileFetching ==
    /\ latestTAIMu.w => fl.pc \in {"locked", "stored"}
    /\ fl.pc \in {"fetching", "parsed"} =>
        /\ ~latestTAIMu.w
        /\ fl.pc = "fetching" =>
             \A p \in Probes :
                /\ req[p].pc = "rlock" => ENABLED RLockLatestTAI(p)
                /\ req[p].pc = "rlocked" => ENABLED ReadLatestTAI(p)

\* the refresher is in its fetch while one probe asks for the read lock
\* and another holds it
C14_Witness ==
    /\ phase = "serving"
    /\ fl.pc = "fetching"
    /\ \E p, q \in Probes :
        /\ req[p].pc = "rlock"
        /\ req[q].pc = "rlocked"

\* the positions of the events of one type among those an observer was given
SeenOfType(type) == {i \in 1..Len(obs.seen) : obs.seen[i].type = type}

\* C15: after any sequence of handshake events given to an observer, hrr is
\* true exactly when at least one retry (HRR) event was among them, and kex
\* is the group of the most recent negotiated-group event, 0 when there was
\* none; events of any other type change neither (so the values depend on
\* the HRR and negotiated-group events alone).
C15_ObserverRecordsEvents ==
    LET hrrs == SeenOfType("CFEventTLS13HRR")
        kexs == SeenOfType("CFEventTLS13NegotiatedKEX")
    IN  /\ obs.c.hrr <=> hrrs # {}
        /\ obs.c.kex = IF kexs = {} THEN 0
                       ELSE obs.seen[CHOOSE i \in kexs : \A j \in kexs : j <= i].KEX

\* an observer was given a retry event, then a negotiated group, then an
\* event of another type, and has events of all three kinds behind it
C15_Witness ==
    /\ Len(obs.seen) = 3
    /\ obs.seen[1].type = "CFEventTLS13HRR"
    /\ obs.seen[2].type = "CFEventTLS13NegotiatedKEX"
    /\ obs.seen[3] = EvOther
    /\ obs.c.hrr
    /\ obs.c.kex # 0

\* the answer of worker p is the reply to a plain (non-POST) request
PlainReply(p) ==
    /\ variant = "client"
    /\ Returned(p)
    /\ req[p].resp.ctype = "application/json"
    /\ DOMAIN req[p].resp.json = {"Kex", "HRR"}

\* C16: a plain (non-POST) request returns exactly the Kex and HRR that the
\* observer of the inbound connection carrying it has recorded.  That
\* observer changes only when its own connection is accepted (its inbound
\* handshake) or replaced by a new one: no step of another connection and
\* no step of a request, an outbound probe started by a POST on the same
\* connection included, changes it.
C16_PlainReplyFromOwnConn ==
    /\ [](\A p \in Probes :
            PlainReply(p) =>
                /\ conn[p].stage = "open"
                /\ req[p].resp.json.Kex = conn[p].c.kex
                /\ req[p].resp.json.HRR = conn[p].c.hrr)
    /\ [][\A p \in Probes :
            /\ conn'[p] # conn[p] =>
                /\ conn[p].stage = "none" \/ conn'[p].stage = "none"
                /\ req[p].pc = "idle"
                /\ req' = req
                /\ \A q \in Probes \ {p} : conn'[q] = conn[q]
            /\ req'[p] # req[p] => conn' = conn]_vars

\* a plain request is answered from its connection's observer while, on
\* another connection whose observer holds something else, a POST probe
\* has returned a group that its own connection's observer does not hold
C16_Witness ==
    \E p, q \in Probes :
        /\ PlainReply(p)
        /\ conn[q].stage = "open"
        /\ conn[q].c # conn[p].c
        /\ conn[p].c.kex # 0
        /\ Returned(q)
        /\ req[q].resp.ctype = "application/json"
        /\ "Remote" \in DOMAIN req[q].resp.json
        /\ req[q].resp.json.Kex \notin {0, conn[q].c.kex}

KnownMethods == {"supported", "preferred", ""}

ValidInput(p) ==
    /\ ~req[p].form.parseErr
    /\ SplitHostPort(req[p].form.remote).err = ""
    /\ variant = "tai" => req[p].form.transport \in {"tcp", "quic"}
    /\ variant = "client" => req[p].form.method \in KnownMethods

\* C18: input validation precedes any network activity: a request is in a
\* network step (resolving, dialing, handshaking) only if its form passed
\* every input check, and a request answered with an input error was
\* answered 4xx without having opened anything (no dial, no UDP socket, no
\* handshake).
C18_ValidationBeforeNetwork ==
    \A p \in Probes :
        /\ InFlight(p) => ValidInput(p)
        /\ Returned(p) /\ req[p].resp.text \in InputErrorTexts =>
            /\ req[p].resp.status \in 400..499
            /\ req[p].opened = {}

====
